---- MODULE Spec2Model ----
(***************************************************************************)
(* The sandboxed execution engine of app/services/executor.py as a state   *)
(* machine: one execute_python call from configuration lookup to the       *)
(* returned ExecutionResult, together with the child process, its          *)
(* descendants and the kernel that delivers signals to them.               *)
(*                                                                         *)
(* Text is a sequence of one-character strings, bytes and code points are  *)
(* integers, an optional value is a sequence of length at most one.        *)
(***************************************************************************)
EXTENDS Integers, Sequences, FiniteSets, TLC

VARIABLES
    environ,            \* os.environ as read at call time
    fs,                 \* filesystem facts: files, the search path, the lib directory
    platform,           \* os.name == "posix", and whether `import resource` worked
    request,            \* keyword arguments of execute_python
    program,            \* what the untrusted child does and which setrlimit calls fail
    pc,                 \* position of the supervisor inside execute_python
    error,              \* the RuntimeError raised, if any
    runtime_path, wasm_module, runtime_args, stdlib_paths, python_args,
    env_updates, cmd,
    workdir,            \* the TemporaryDirectory
    proc,               \* the Popen object and the child process behind it
    desc,               \* processes forked by the child
    attempted,          \* setrlimit calls made by the pre-exec hook
    child_limits,       \* limits in force in the child
    supervisor_limits,  \* limits in force in the supervising process
    out, err,           \* bytes written to the stdout / stderr pipes so far
    timed_out,
    result              \* the ExecutionResult returned

vars == << environ, fs, platform, request, program, pc, error, runtime_path,
           wasm_module, runtime_args, stdlib_paths, python_args, env_updates,
           cmd, workdir, proc, desc, attempted, child_limits,
           supervisor_limits, out, err, timed_out, result >>

---------------------------------------------------------------------------
(* String literals of the source. *)
S_dir == <<"-","-","d","i","r">>  \* "--dir"
S_dirEq == <<"-","-","d","i","r","=">>  \* "--dir="
S_env == <<"-","-","e","n","v">>  \* "--env"
S_envEq == <<"-","-","e","n","v","=">>  \* "--env="
S_sep2 == <<":",":">>  \* "::"
S_eq == <<"=">>  \* "="
S_colon == <<":">>  \* ":"
S_slash == <<"/">>  \* "/"
S_python == <<"p","y","t","h","o","n">>  \* "python"
S_zip == <<".","z","i","p">>  \* ".zip"
S_lib == <<"l","i","b">>  \* "lib"
S_run == <<"r","u","n">>  \* "run"
S_I == <<"-","I">>  \* "-I"
S_c == <<"-","c">>  \* "-c"
S_one == <<"1">>  \* "1"
S_wasmtime == <<"w","a","s","m","t","i","m","e">>  \* "wasmtime"
K_PYTHONUNBUFFERED == <<"P","Y","T","H","O","N","U","N","B","U","F","F","E","R","E","D">>  \* "PYTHONUNBUFFERED"
K_PY_CODE_B64 == <<"P","Y","_","C","O","D","E","_","B","6","4">>  \* "PY_CODE_B64"
K_PYTHON_WASM_PREFIX == <<"P","Y","T","H","O","N","_","W","A","S","M","_","P","R","E","F","I","X">>  \* "PYTHON_WASM_PREFIX"
K_PYTHON_WASM_STDLIB_PATHS == <<"P","Y","T","H","O","N","_","W","A","S","M","_","S","T","D","L","I","B","_","P","A","T","H","S">>  \* "PYTHON_WASM_STDLIB_PATHS"
K_PYTHONHOME == <<"P","Y","T","H","O","N","H","O","M","E">>  \* "PYTHONHOME"
K_PYTHONPATH == <<"P","Y","T","H","O","N","P","A","T","H">>  \* "PYTHONPATH"
P_homebrew == <<"/","o","p","t","/","h","o","m","e","b","r","e","w","/","b","i","n","/","w","a","s","m","t","i","m","e">>  \* "/opt/homebrew/bin/wasmtime"
P_usrlocal == <<"/","u","s","r","/","l","o","c","a","l","/","b","i","n","/","w","a","s","m","t","i","m","e">>  \* "/usr/local/bin/wasmtime"
P_dotwasmtime == <<"/",".","w","a","s","m","t","i","m","e","/","b","i","n","/","w","a","s","m","t","i","m","e">>  \* "/.wasmtime/bin/wasmtime"
P_dotcargo == <<"/",".","c","a","r","g","o","/","b","i","n","/","w","a","s","m","t","i","m","e">>  \* "/.cargo/bin/wasmtime"
S_libdynload == <<"l","i","b","-","d","y","n","l","o","a","d">>  \* "lib-dynload"
S_sitepackages == <<"s","i","t","e","-","p","a","c","k","a","g","e","s">>  \* "site-packages"
Base64Alphabet == <<"A","B","C","D","E","F","G","H","I","J","K","L","M","N","O","P","Q","R","S","T","U","V","W","X","Y","Z","a","b","c","d","e","f","g","h","i","j","k","l","m","n","o","p","q","r","s","t","u","v","w","x","y","z","0","1","2","3","4","5","6","7","8","9","+","/">>
Digits == {"0","1","2","3","4","5","6","7","8","9"}
\* Characters of file names in ASCII order, for sorted().
NameChars == <<"-",".","0","1","2","3","4","5","6","7","8","9","A","B","C","D","E","F","G","H","I","J","K","L","M","N","O","P","Q","R","S","T","U","V","W","X","Y","Z","_","a","b","c","d","e","f","g","h","i","j","k","l","m","n","o","p","q","r","s","t","u","v","w","x","y","z">>
\* The bootstrap program is a fixed text that nothing inspects: one opaque symbol.
WASM_BOOTSTRAP_SCRIPT == <<"_WASM_BOOTSTRAP_SCRIPT">>
guest_prefix == <<"/">> \o S_python  \* "/python"

---------------------------------------------------------------------------
(* Python's str and list primitives. *)
None == << >>
Some(v) == << v >>

StartsWith(s, p) == Len(s) >= Len(p) /\ SubSeq(s, 1, Len(p)) = p
EndsWith(s, p) == Len(s) >= Len(p) /\ SubSeq(s, Len(s) - Len(p) + 1, Len(s)) = p
\* s[k:]
SliceFrom(s, k) == SubSeq(s, k + 1, Len(s))
\* s[:k]
SliceTo(s, k) == SubSeq(s, 1, k)
Max(a, b) == IF a >= b THEN a ELSE b
\* s.lstrip("/")
RECURSIVE lstrip_slash(_)
lstrip_slash(s) == IF s # << >> /\ Head(s) = "/" THEN lstrip_slash(Tail(s)) ELSE s
\* sep.join(parts)
RECURSIVE Join(_, _)
Join(sep, parts) ==
    IF parts = << >> THEN << >>
    ELSE IF Len(parts) = 1 THEN parts[1]
    ELSE parts[1] \o sep \o Join(sep, Tail(parts))
\* Index of the last "/" of p, 0 when there is none.
LastSlash(p) ==
    LET idx == {i \in DOMAIN p : p[i] = "/"}
    IN IF idx = {} THEN 0 ELSE CHOOSE i \in idx : \A j \in idx : j <= i
\* Path(p).parent and Path(p).name of an absolute path.
Parent(p) == IF LastSlash(p) <= 1 THEN S_slash ELSE SliceTo(p, LastSlash(p) - 1)
BaseName(p) == SliceFrom(p, LastSlash(p))
\* a / b for path objects
PathJoin(a, b) == IF EndsWith(a, S_slash) THEN a \o b ELSE a \o S_slash \o b

---------------------------------------------------------------------------
(* The filesystem. fs.files maps an absolute path to                       *)
(* [type: "file" | "dir", x: access(X_OK), r: open() succeeds, data: bytes]; *)
(* a path outside its domain does not exist.                               *)
Cwd == <<"/","w">>
Home == <<"/","h">>

exists(p) == p \in DOMAIN fs.files
isfile(p) == exists(p) /\ fs.files[p].type = "file"
isdir(p) == exists(p) /\ fs.files[p].type = "dir"
access_X_OK(p) == exists(p) /\ fs.files[p].x
isabs(p) == p # << >> /\ Head(p) = "/"
abspath(p) == IF isabs(p) THEN p ELSE PathJoin(Cwd, p)

\* shutil.which(name): the first directory of the search path holding an
\* executable regular file of that name.
which(name) ==
    LET hits == {i \in DOMAIN fs.path :
                    LET f == PathJoin(fs.path[i], name)
                    IN isfile(f) /\ access_X_OK(f)}
    IN IF hits = {} THEN None
       ELSE Some(PathJoin(fs.path[CHOOSE i \in hits : \A j \in hits : i <= j], name))

locate_runtime(executable) ==
    IF executable = None \/ executable[1] = << >> THEN None
    ELSE LET e == executable[1]
         IN IF isabs(e) \/ (\E i \in DOMAIN e : e[i] = "/")
            THEN LET candidate == abspath(e)
                 IN IF isfile(candidate) /\ access_X_OK(candidate)
                    THEN Some(candidate) ELSE None
            ELSE which(e)

\* The well-known installation locations, in the order the source lists them.
default_paths ==
    << P_homebrew, P_usrlocal, Home \o P_dotwasmtime, Home \o P_dotcargo >>

\* The loop without its break: the last matching location.
first_default_no_break ==
    LET hits == {i \in DOMAIN default_paths :
                    isfile(default_paths[i]) /\ access_X_OK(default_paths[i])}
    IN IF hits = {} THEN None
       ELSE Some(default_paths[CHOOSE i \in hits : \A j \in hits : j <= i])

\* The for loop over default_paths with its break: the first location that
\* is an executable regular file.
first_default ==
    LET hits == {i \in DOMAIN default_paths :
                    isfile(default_paths[i]) /\ access_X_OK(default_paths[i])}
    IN IF hits = {} THEN None
       ELSE Some(default_paths[CHOOSE i \in hits : \A j \in hits : i <= j])

resolve_runtime_path ==
    LET configured == locate_runtime(environ.PYTHON_WASM_RUNTIME)
        byName == IF configured = None THEN locate_runtime(Some(S_wasmtime))
                  ELSE configured
    IN IF byName = None THEN first_default ELSE byName

WasmMagic == << 0, 97, 115, 109 >>   \* b"\0asm"
\* fh.read(4)
read4(p) == SliceTo(fs.files[p].data, IF Len(fs.files[p].data) < 4
                                      THEN Len(fs.files[p].data) ELSE 4)
\* A comparison of the first three bytes only.
magic_ok_three_bytes(magic) == Len(magic) >= 3 /\ SubSeq(magic, 1, 3) = SubSeq(WasmMagic, 1, 3)
magic_ok(magic) == magic = WasmMagic

\* resolve_wasm_runtime: [error |-> e] with e # None when it raises, else the
\* triple it returns.
resolve_wasm_runtime ==
    LET rp == resolve_runtime_path
        wm == environ.PYTHON_WASM_PATH
        Fail(e) == [error |-> Some(e), runtime_path |-> None,
                    wasm_module |-> None, extra_args |-> << >>]
    IN IF rp = None THEN Fail("runtime_not_found")
       ELSE IF wm = None \/ wm[1] = << >> THEN Fail("module_path_unset")
       ELSE IF ~exists(abspath(wm[1])) THEN Fail("module_not_found")
       ELSE IF isdir(abspath(wm[1])) THEN Fail("module_is_directory")
       ELSE IF ~fs.files[abspath(wm[1])].r THEN Fail("module_unreadable")
       ELSE IF ~magic_ok(read4(abspath(wm[1]))) THEN Fail("module_bad_magic")
       ELSE [error |-> None, runtime_path |-> rp,
             wasm_module |-> Some(abspath(wm[1])),
             extra_args |-> environ.PYTHON_WASM_RUNTIME_ARGS]

---------------------------------------------------------------------------
(* Character order, for sorted(). *)
CharCode(c) == CHOOSE i \in DOMAIN NameChars : NameChars[i] = c
RECURSIVE StrLess(_, _)
StrLess(a, b) ==
    IF b = << >> THEN FALSE
    ELSE IF a = << >> THEN TRUE
    ELSE IF Head(a) = Head(b) THEN StrLess(Tail(a), Tail(b))
    ELSE CharCode(Head(a)) < CharCode(Head(b))
\* sorted(S) for a finite set of strings
RECURSIVE Sorted(_)
Sorted(S) ==
    IF S = {} THEN << >>
    ELSE LET m == CHOOSE x \in S : \A y \in S \ {x} : StrLess(x, y)
         IN << m >> \o Sorted(S \ {m})

\* lib_root.iterdir(): the names directly inside directory d
iterdir(d) == {BaseName(p) : p \in {q \in DOMAIN fs.files : q # d /\ Parent(q) = d}}

IsDigits(s) == s # << >> /\ \A i \in DOMAIN s : s[i] \in Digits
\* re.compile(r"python\d+(?:\.\d+)?").fullmatch(name)
version_pattern(name) ==
    /\ StartsWith(name, S_python)
    /\ LET rest == SliceFrom(name, Len(S_python))
       IN \/ IsDigits(rest)
          \/ \E k \in DOMAIN rest :
                /\ rest[k] = "."
                /\ IsDigits(SliceTo(rest, k - 1))
                /\ IsDigits(SliceFrom(rest, k))
\* lib_root.glob("python*.zip")
zip_pattern(name) ==
    /\ Len(name) >= Len(S_python) + Len(S_zip)
    /\ StartsWith(name, S_python)
    /\ EndsWith(name, S_zip)

\* The nested _add: append unless seen.
add_path(paths, p) == IF \E i \in DOMAIN paths : paths[i] = p THEN paths ELSE Append(paths, p)
RECURSIVE add_all(_, _)
add_all(paths, ps) == IF ps = << >> THEN paths ELSE add_all(add_path(paths, Head(ps)), Tail(ps))

discover_stdlib_paths(python_root, prefix) ==
    LET lib_root == PathJoin(python_root, S_lib)
        listing == Sorted(iterdir(lib_root))
        IsVersionDir(n) == isdir(PathJoin(lib_root, n)) /\ version_pattern(n)
        versions == SelectSeq(listing, IsVersionDir)
    IN IF ~isdir(lib_root) THEN << >>
       ELSE IF versions = << >> THEN << >>
       ELSE LET version_dir == PathJoin(lib_root, versions[1])
                guest_base == prefix \o S_slash \o S_lib \o S_slash \o versions[1]
                HasSub(n) == isdir(PathJoin(version_dir, n))
                subdirs == SelectSeq(<< S_libdynload, S_sitepackages >>, HasSub)
                zips == SelectSeq(listing, zip_pattern)
                SubPath(i) == guest_base \o S_slash \o subdirs[i]
                ZipPath(i) == prefix \o S_slash \o S_lib \o S_slash \o zips[i]
            IN add_all(add_all(add_path(<< >>, guest_base),
                               [i \in DOMAIN subdirs |-> SubPath(i)]),
                       [i \in DOMAIN zips |-> ZipPath(i)])

---------------------------------------------------------------------------
(* code.encode("utf-8") and base64.b64encode. *)
Utf8Bytes(cp) ==
    IF cp < 128 THEN << cp >>
    ELSE IF cp < 2048 THEN << 192 + (cp \div 64), 128 + (cp % 64) >>
    ELSE IF cp < 65536
         THEN << 224 + (cp \div 4096), 128 + ((cp \div 64) % 64), 128 + (cp % 64) >>
    ELSE << 240 + (cp \div 262144), 128 + ((cp \div 4096) % 64),
            128 + ((cp \div 64) % 64), 128 + (cp % 64) >>
RECURSIVE Utf8Encode(_)
Utf8Encode(text) ==
    IF text = << >> THEN << >> ELSE Utf8Bytes(Head(text)) \o Utf8Encode(Tail(text))

B64Char(v) == Base64Alphabet[v + 1]
RECURSIVE b64encode(_)
b64encode(b) ==
    IF b = << >> THEN << >>
    ELSE IF Len(b) = 1
         THEN << B64Char(b[1] \div 4), B64Char((b[1] % 4) * 16), "=", "=" >>
    ELSE IF Len(b) = 2
         THEN << B64Char(b[1] \div 4), B64Char(((b[1] % 4) * 16) + (b[2] \div 16)),
                 B64Char((b[2] % 16) * 4), "=" >>
    ELSE << B64Char(b[1] \div 4), B64Char(((b[1] % 4) * 16) + (b[2] \div 16)),
            B64Char(((b[2] % 16) * 4) + (b[3] \div 64)), B64Char(b[3] % 64) >>
         \o b64encode(SubSeq(b, 4, Len(b)))

---------------------------------------------------------------------------
(* Assembly of the runtime invocation. *)
target_suffix == S_sep2 \o lstrip_slash(guest_prefix)      \* "::python"
host_mapping(python_root) == python_root \o target_suffix

\* A scan that knows the "--dir X" pair only.
is_mapping_at_pair_only(args, idx) ==
    args[idx] = S_dir /\ idx + 1 <= Len(args) /\ EndsWith(args[idx + 1], target_suffix)

\* The two argument shapes _has_mapping recognises at index idx.
is_mapping_at(args, idx) ==
    IF args[idx] = S_dir
    THEN idx + 1 <= Len(args) /\ EndsWith(args[idx + 1], target_suffix)
    ELSE StartsWith(args[idx], S_dirEq) /\ EndsWith(SliceFrom(args[idx], 6), target_suffix)
has_mapping(args) == \E idx \in DOMAIN args : is_mapping_at(args, idx)

add_mapping(args, python_root) ==
    IF ~has_mapping(args) THEN args \o << S_dir, host_mapping(python_root) >> ELSE args

\* The two argument shapes _ensure_env_arg recognises at index idx.
is_env_arg_at(args, idx, key) ==
    IF args[idx] = S_env
    THEN idx + 1 <= Len(args) /\ StartsWith(args[idx + 1], key \o S_eq)
    ELSE StartsWith(args[idx], S_envEq) /\ StartsWith(SliceFrom(args[idx], 6), key \o S_eq)
ensure_env_arg(args, key, value) ==
    IF \E idx \in DOMAIN args : is_env_arg_at(args, idx, key) THEN args
    ELSE args \o << S_env, key \o S_eq \o value >>

\* env_updates with PYTHONPATH set unconditionally.
make_env_updates_always_pythonpath(encoded_code, paths) ==
    LET stdlib_path_str == Join(S_colon, paths)
    IN << << K_PYTHONUNBUFFERED, S_one >>,
          << K_PY_CODE_B64, encoded_code >>,
          << K_PYTHON_WASM_PREFIX, guest_prefix >>,
          << K_PYTHON_WASM_STDLIB_PATHS, stdlib_path_str >>,
          << K_PYTHONHOME, guest_prefix >>,
          << K_PYTHONPATH, stdlib_path_str >> >>

\* env_updates, in insertion order, as (key, value) pairs.
make_env_updates(encoded_code, paths) ==
    LET stdlib_path_str == Join(S_colon, paths)
    IN << << K_PYTHONUNBUFFERED, S_one >>,
          << K_PY_CODE_B64, encoded_code >>,
          << K_PYTHON_WASM_PREFIX, guest_prefix >>,
          << K_PYTHON_WASM_STDLIB_PATHS, stdlib_path_str >>,
          << K_PYTHONHOME, guest_prefix >> >>
       \o (IF stdlib_path_str # << >> THEN << << K_PYTHONPATH, stdlib_path_str >> >>
           ELSE << >>)

\* for env_key, env_value in env_updates.items(): _ensure_env_arg(...)
RECURSIVE ensure_all(_, _)
ensure_all(args, updates) ==
    IF updates = << >> THEN args
    ELSE ensure_all(ensure_env_arg(args, Head(updates)[1], Head(updates)[2]), Tail(updates))

\* Lines 208-275: caller arguments in, final runtime arguments out.
assemble_runtime_args(args, python_root, updates) ==
    ensure_all(add_mapping(args, python_root), updates)

\* The policy with the disable toggle read the wrong way round.
use_isolated_disable_inverted(force_isolated, disable_isolated) ==
    IF force_isolated # None THEN force_isolated[1] = S_one
    ELSE IF disable_isolated # None THEN disable_isolated[1] = S_one
    ELSE FALSE

use_isolated(force_isolated, disable_isolated) ==
    IF force_isolated # None THEN force_isolated[1] = S_one
    ELSE IF disable_isolated # None THEN disable_isolated[1] # S_one
    ELSE FALSE

make_python_args(force_isolated, disable_isolated) ==
    (IF use_isolated(force_isolated, disable_isolated) THEN << S_I >> ELSE << >>)
    \o << S_c, WASM_BOOTSTRAP_SCRIPT >>

---------------------------------------------------------------------------
(* bytes.decode("utf-8", errors="replace"): code points out, U+FFFD for    *)
(* every maximal ill-formed subsequence.                                   *)
Replacement == 65533
IsCont(b) == b >= 128 /\ b <= 191
\* The range the second byte of a sequence led by b0 must lie in.
SecondOk(b0, b1) ==
    IF b0 = 224 THEN b1 >= 160 /\ b1 <= 191
    ELSE IF b0 = 237 THEN b1 >= 128 /\ b1 <= 159
    ELSE IF b0 = 240 THEN b1 >= 144 /\ b1 <= 191
    ELSE IF b0 = 244 THEN b1 >= 128 /\ b1 <= 143
    ELSE IsCont(b1)
\* Number of bytes the sequence led by b0 needs; 0 for a byte that leads none.
SeqLen(b0) ==
    IF b0 < 128 THEN 1
    ELSE IF b0 >= 194 /\ b0 <= 223 THEN 2
    ELSE IF b0 >= 224 /\ b0 <= 239 THEN 3
    ELSE IF b0 >= 240 /\ b0 <= 244 THEN 4
    ELSE 0
\* Length of the longest well-formed prefix of the sequence starting at s[1].
GoodPrefix(s) ==
    LET n == SeqLen(s[1])
    IN IF n <= 1 THEN 1
       ELSE IF Len(s) < 2 \/ ~SecondOk(s[1], s[2]) THEN 1
       ELSE IF n = 2 THEN 2
       ELSE IF Len(s) < 3 \/ ~IsCont(s[3]) THEN 2
       ELSE IF n = 3 THEN 3
       ELSE IF Len(s) < 4 \/ ~IsCont(s[4]) THEN 3
       ELSE 4
CodePoint(s, n) ==
    IF n = 1 THEN s[1]
    ELSE IF n = 2 THEN (s[1] - 192) * 64 + (s[2] - 128)
    ELSE IF n = 3 THEN (s[1] - 224) * 4096 + (s[2] - 128) * 64 + (s[3] - 128)
    ELSE (s[1] - 240) * 262144 + (s[2] - 128) * 4096 + (s[3] - 128) * 64 + (s[4] - 128)
RECURSIVE decode_replace(_)
decode_replace(s) ==
    IF s = << >> THEN << >>
    ELSE LET n == SeqLen(s[1])
             g == GoodPrefix(s)
         IN IF n > 0 /\ g = n
            THEN << CodePoint(s, n) >> \o decode_replace(SubSeq(s, n + 1, Len(s)))
            ELSE << Replacement >> \o decode_replace(SubSeq(s, g + 1, Len(s)))

\* b"\n...[truncated]"
TruncationSuffix == << 10, 46, 46, 46, 91, 116, 114, 117, 110, 99, 97, 116, 101, 100, 93 >>
HeadReserve == 32
truncate(s, max_bytes) ==
    IF Len(s) <= max_bytes THEN decode_replace(s)
    ELSE decode_replace(SliceTo(s, Max(0, max_bytes - HeadReserve)) \o TruncationSuffix)

\* len(text.encode("utf-8"))
EncodedLen(text) == Len(Utf8Encode(text))

---------------------------------------------------------------------------
(* The pre-exec hook. *)
LimitOrder == << "RLIMIT_CPU", "RLIMIT_AS", "RLIMIT_FSIZE", "RLIMIT_NOFILE", "RLIMIT_NPROC" >>
Limits == {LimitOrder[i] : i \in DOMAIN LimitOrder}
DefaultCpuSec == 2
DefaultMemoryMb == 256
FsizeLimit == 16777216
NofileLimit == 64
NprocLimit == 64
limit_value(l, cpu_time_sec, memory_limit_mb) ==
    CASE l = "RLIMIT_CPU" -> cpu_time_sec
      [] l = "RLIMIT_AS" -> memory_limit_mb * 1024 * 1024
      [] l = "RLIMIT_FSIZE" -> FsizeLimit
      [] l = "RLIMIT_NOFILE" -> NofileLimit
      [] l = "RLIMIT_NPROC" -> NprocLimit

\* _apply, run in the forked child: which setrlimit calls were made, which
\* took effect, and whether os.setsid() was reached. fails is the set of
\* limits whose setrlimit raises.
apply_hook(fails, cpu_time_sec, memory_limit_mb) ==
    IF ~platform.resource
    THEN [attempted |-> {}, limits |-> [l \in Limits |-> None], setsid |-> FALSE]
    ELSE [attempted |-> Limits,
          limits |-> [l \in Limits |->
                        IF l \in fails THEN None
                        ELSE Some(limit_value(l, cpu_time_sec, memory_limit_mb))],
          setsid |-> TRUE]

\* preexec_fn=preexec if os.name == "posix" else None
run_preexec(fails, cpu_time_sec, memory_limit_mb) ==
    IF platform.posix THEN apply_hook(fails, cpu_time_sec, memory_limit_mb)
    ELSE [attempted |-> {}, limits |-> [l \in Limits |-> None], setsid |-> FALSE]

---------------------------------------------------------------------------
(* Processes. The child is the process Popen forks; desc[i] are processes  *)
(* the child forks. A process holds the write ends of the stdout and       *)
(* stderr pipes until it closes them or dies. pgid is "own" for a group    *)
(* leader, "child" for a member of the child's own group and "parent" for  *)
(* a member of the group the supervisor itself is in.                      *)
MaxDesc == 2
MaxOutLen == 36
MaxErrLen == 2
DescIds == 1..MaxDesc
NoProc == [state |-> "none", pgid |-> "none", pipes |-> FALSE, signaled |-> FALSE,
           status |-> None, returncode |-> None, input |-> None]
NoDesc == [state |-> "none", pgid |-> "none", pipes |-> FALSE, signaled |-> FALSE]
SIGKILL == 9

InCall == pc \in {"communicate", "killpg", "kill", "drain"}
\* Every write end of the pipes is closed: the reads of communicate() hit EOF.
PipesClosed ==
    /\ ~(proc.state = "running" /\ proc.pipes)
    /\ \A i \in DescIds : ~(desc[i].state = "running" /\ desc[i].pipes)
\* The processes in the process group whose id is the child's pid.
InChildGroup(i) == desc[i].state = "running" /\ desc[i].pgid = "child"

---------------------------------------------------------------------------
(* The supervisor: execute_python. *)
Resolve ==
    /\ pc = "start"
    /\ LET r == resolve_wasm_runtime
       IN IF r.error # None
          THEN /\ pc' = "error"
               /\ error' = r.error
               /\ UNCHANGED << runtime_path, wasm_module, runtime_args >>
          ELSE /\ pc' = "resolved"
               /\ runtime_path' = r.runtime_path
               /\ wasm_module' = r.wasm_module
               /\ runtime_args' = r.extra_args
               /\ UNCHANGED error
    /\ UNCHANGED << environ, fs, platform, request, program, stdlib_paths, python_args,
                    env_updates, cmd, workdir, proc, desc, attempted, child_limits,
                    supervisor_limits, out, err, timed_out, result >>

Assemble ==
    /\ pc = "resolved"
    /\ LET python_root == Parent(wasm_module[1])
           paths == discover_stdlib_paths(python_root, guest_prefix)
           encoded_code == b64encode(Utf8Encode(request.code))
           updates == make_env_updates(encoded_code, paths)
           args == assemble_runtime_args(runtime_args, python_root, updates)
           pargs == make_python_args(environ.PYTHON_WASM_FORCE_ISOLATED,
                                     environ.PYTHON_WASM_DISABLE_ISOLATED)
       IN /\ stdlib_paths' = paths
          /\ env_updates' = updates
          /\ runtime_args' = args
          /\ python_args' = pargs
          /\ cmd' = << runtime_path[1], S_run >> \o args \o << wasm_module[1] >> \o pargs
    /\ pc' = "assembled"
    /\ UNCHANGED << environ, fs, platform, request, program, error, runtime_path,
                    wasm_module, workdir, proc, desc, attempted, child_limits,
                    supervisor_limits, out, err, timed_out, result >>

\* tempfile.TemporaryDirectory, subprocess.Popen with the pre-exec hook run in
\* the forked child, and the stdin bytes communicate() is about to write.
Spawn ==
    /\ pc = "assembled"
    /\ LET cpu == IF request.cpu_time_limit_sec # None THEN request.cpu_time_limit_sec[1]
                  ELSE DefaultCpuSec
           mem == IF request.memory_limit_mb # None THEN request.memory_limit_mb[1]
                  ELSE DefaultMemoryMb
           hook == run_preexec(program.limit_fails, cpu, mem)
       IN /\ attempted' = hook.attempted
          /\ child_limits' = hook.limits
          /\ proc' = [state |-> "running",
                      pgid |-> IF hook.setsid THEN "own" ELSE "parent",
                      pipes |-> TRUE, signaled |-> FALSE, status |-> None,
                      returncode |-> None,
                      input |-> IF request.stdin # None
                                THEN Some(Utf8Encode(request.stdin[1])) ELSE None]
    /\ workdir' = "created"
    /\ pc' = "communicate"
    /\ UNCHANGED << environ, fs, platform, request, program, error, runtime_path,
                    wasm_module, runtime_args, stdlib_paths, python_args, env_updates,
                    cmd, desc, supervisor_limits, out, err, timed_out, result >>

\* proc.communicate(timeout=...) returns: both pipes at EOF and the child waited for.
Complete ==
    /\ pc = "communicate"
    /\ proc.state = "zombie"
    /\ PipesClosed
    /\ proc' = [proc EXCEPT !.state = "reaped", !.returncode = proc.status]
    /\ timed_out' = FALSE
    /\ workdir' = "removed"
    /\ pc' = "sanitize"
    /\ UNCHANGED << environ, fs, platform, request, program, error, runtime_path,
                    wasm_module, runtime_args, stdlib_paths, python_args, env_updates,
                    cmd, desc, attempted, child_limits, supervisor_limits, out, err,
                    result >>

\* subprocess.TimeoutExpired: the deadline passes with a pipe still open or
\* the child still running.
Timeout ==
    /\ pc = "communicate"
    /\ ~(proc.state = "zombie" /\ PipesClosed)
    /\ timed_out' = TRUE
    /\ pc' = "killpg"
    /\ UNCHANGED << environ, fs, platform, request, program, error, runtime_path,
                    wasm_module, runtime_args, stdlib_paths, python_args, env_updates,
                    cmd, workdir, proc, desc, attempted, child_limits,
                    supervisor_limits, out, err, result >>

\* os.killpg(proc.pid, SIGKILL) succeeds when a process group with the
\* child's pid as its id exists, that is when the child called setsid().
killpg_succeeds == platform.posix /\ proc.pgid = "own"

\* if os.name == "posix": os.killpg(...), any exception swallowed.
Killpg ==
    /\ pc = "killpg"
    /\ IF killpg_succeeds
       THEN /\ proc' = [proc EXCEPT !.signaled = (proc.state = "running") \/ @]
            /\ desc' = [i \in DescIds |->
                          IF InChildGroup(i) THEN [desc[i] EXCEPT !.signaled = TRUE]
                          ELSE desc[i]]
       ELSE UNCHANGED << proc, desc >>
    /\ pc' = "kill"
    /\ UNCHANGED << environ, fs, platform, request, program, error, runtime_path,
                    wasm_module, runtime_args, stdlib_paths, python_args, env_updates,
                    cmd, workdir, attempted, child_limits, supervisor_limits, out, err,
                    timed_out, result >>

\* proc.kill(): Popen.send_signal polls first and signals only a child that
\* has not been waited for.
Kill ==
    /\ pc = "kill"
    /\ proc' = IF proc.state = "zombie"
               THEN [proc EXCEPT !.state = "reaped", !.returncode = proc.status]
               ELSE [proc EXCEPT !.signaled = TRUE]
    /\ pc' = "drain"
    /\ UNCHANGED << environ, fs, platform, request, program, error, runtime_path,
                    wasm_module, runtime_args, stdlib_paths, python_args, env_updates,
                    cmd, workdir, desc, attempted, child_limits, supervisor_limits,
                    out, err, timed_out, result >>

\* The second proc.communicate(), without a timeout: it returns once both
\* pipes are at EOF and the child has been waited for.
Drain ==
    /\ pc = "drain"
    /\ proc.state \in {"zombie", "reaped"}
    /\ PipesClosed
    /\ proc' = [proc EXCEPT !.state = "reaped",
                            !.returncode = IF proc.state = "zombie" THEN proc.status ELSE @]
    /\ workdir' = "removed"
    /\ pc' = "sanitize"
    /\ UNCHANGED << environ, fs, platform, request, program, error, runtime_path,
                    wasm_module, runtime_args, stdlib_paths, python_args, env_updates,
                    cmd, desc, attempted, child_limits, supervisor_limits, out, err,
                    timed_out, result >>

\* exit_code = proc.returncode or None
exit_code_of_falsy(is_timed_out, returncode) ==
    IF is_timed_out \/ returncode = Some(0) THEN None ELSE returncode
exit_code_of(is_timed_out, returncode) == IF is_timed_out THEN None ELSE returncode

\* Lines 316-327. duration_ms is not modelled.
Return ==
    /\ pc = "sanitize"
    /\ result' = Some([stdout |-> truncate(out, request.max_output_bytes),
                       stderr |-> truncate(err, request.max_output_bytes),
                       exit_code |-> exit_code_of(timed_out, proc.returncode),
                       timed_out |-> timed_out])
    /\ pc' = "returned"
    /\ UNCHANGED << environ, fs, platform, request, program, error, runtime_path,
                    wasm_module, runtime_args, stdlib_paths, python_args, env_updates,
                    cmd, workdir, proc, desc, attempted, child_limits,
                    supervisor_limits, out, err, timed_out >>

---------------------------------------------------------------------------
(* The child, its descendants and the kernel, while the call is in progress. *)
UnchangedSupervisor ==
    UNCHANGED << environ, fs, platform, request, program, pc, error, runtime_path,
                 wasm_module, runtime_args, stdlib_paths, python_args, env_updates,
                 cmd, workdir, attempted, child_limits, supervisor_limits, timed_out,
                 result >>

\* A live holder of the pipes writes program.out_unit to stdout.
WriteStdout ==
    /\ InCall
    /\ ~PipesClosed
    /\ program.out_unit # << >>
    /\ Len(out) + Len(program.out_unit) <= MaxOutLen
    /\ out' = out \o program.out_unit
    /\ UNCHANGED << proc, desc, err >>
    /\ UnchangedSupervisor

WriteStderr ==
    /\ InCall
    /\ ~PipesClosed
    /\ program.out_unit # << >>
    /\ Len(err) + Len(program.out_unit) <= MaxErrLen
    /\ err' = err \o program.out_unit
    /\ UNCHANGED << proc, desc, out >>
    /\ UnchangedSupervisor

\* The child exits on its own with program.status.
ChildExit ==
    /\ InCall
    /\ proc.state = "running"
    /\ proc' = [proc EXCEPT !.state = "zombie", !.pipes = FALSE,
                            !.status = Some(program.status)]
    /\ UNCHANGED << desc, out, err >>
    /\ UnchangedSupervisor

\* The child forks; the new process inherits the pipes and the process group.
\* A process with SIGKILL pending cannot complete a fork, which is what makes
\* a group kill reach every member.
Fork(i) ==
    /\ InCall
    /\ program.forks
    /\ proc.state = "running"
    /\ ~proc.signaled
    /\ desc[i].state = "none"
    /\ \A j \in DescIds : j < i => desc[j].state # "none"
    /\ desc' = [desc EXCEPT ![i] = [state |-> "running",
                                    pgid |-> IF proc.pgid = "own" THEN "child" ELSE "parent",
                                    pipes |-> proc.pipes, signaled |-> FALSE]]
    /\ UNCHANGED << proc, out, err >>
    /\ UnchangedSupervisor

\* A descendant calls setsid() and leaves the group it was born in.
DescSetsid(i) ==
    /\ InCall
    /\ desc[i].state = "running"
    /\ desc[i].pgid # "own"
    /\ desc' = [desc EXCEPT ![i].pgid = "own"]
    /\ UNCHANGED << proc, out, err >>
    /\ UnchangedSupervisor

\* A descendant closes its stdout and stderr and keeps running.
DescClosePipes(i) ==
    /\ InCall
    /\ desc[i].state = "running"
    /\ desc[i].pipes
    /\ desc' = [desc EXCEPT ![i].pipes = FALSE]
    /\ UNCHANGED << proc, out, err >>
    /\ UnchangedSupervisor

DescExit(i) ==
    /\ InCall
    /\ desc[i].state = "running"
    /\ desc' = [desc EXCEPT ![i].state = "dead", ![i].pipes = FALSE]
    /\ UNCHANGED << proc, out, err >>
    /\ UnchangedSupervisor

\* The kernel delivers SIGKILL: the process dies and its descriptors close.
KernelKillChild ==
    /\ InCall
    /\ proc.state = "running"
    /\ proc.signaled
    /\ proc' = [proc EXCEPT !.state = "zombie", !.pipes = FALSE, !.status = Some(-SIGKILL)]
    /\ UNCHANGED << desc, out, err >>
    /\ UnchangedSupervisor

KernelKillDesc(i) ==
    /\ InCall
    /\ desc[i].state = "running"
    /\ desc[i].signaled
    /\ desc' = [desc EXCEPT ![i].state = "dead", ![i].pipes = FALSE]
    /\ UNCHANGED << proc, out, err >>
    /\ UnchangedSupervisor

Supervisor == Resolve \/ Assemble \/ Spawn \/ Complete \/ Timeout \/ Killpg \/ Kill
              \/ Drain \/ Return
Kernel == KernelKillChild \/ (\E i \in DescIds : KernelKillDesc(i))
Untrusted ==
    \/ WriteStdout
    \/ WriteStderr
    \/ ChildExit
    \/ \E i \in DescIds : Fork(i)
    \/ \E i \in DescIds : DescSetsid(i)
    \/ \E i \in DescIds : DescClosePipes(i)
    \/ \E i \in DescIds : DescExit(i)
Next == Supervisor \/ Kernel \/ Untrusted

---------------------------------------------------------------------------
(* Scenarios: the configuration, filesystem, platform, request and child   *)
(* program a call starts from.                                             *)
P_bin == <<"/","b">>                                     \* the one directory on PATH
P_bin_wasmtime == <<"/","b","/","w","a","s","m","t","i","m","e">>
P_bin_iwasm == <<"/","b","/","i","w","a","s","m">>
S_iwasm == <<"i","w","a","s","m">>
P_cfg_abs == <<"/","r","/","r","t">>                     \* "/r/rt"
S_cfg_rel == <<"r","/","r","t">>                         \* "r/rt", relative to Cwd
P_cfg_rel == <<"/","w","/","r","/","r","t">>             \* abspath("r/rt")
P_root == <<"/","m">>
P_module == <<"/","m","/","p",".","w","a","s","m">>      \* "/m/p.wasm"
S_module_rel == <<"p",".","w","a","s","m">>              \* "p.wasm", relative to Cwd
P_module_rel == <<"/","w","/","p",".","w","a","s","m">>
P_lib == <<"/","m","/","l","i","b">>
N_python3 == <<"p","y","t","h","o","n","3">>
N_python312 == <<"p","y","t","h","o","n","3",".","1","2">>
N_pythonx == <<"p","y","t","h","o","n","-","x">>
N_zip == <<"p","y","t","h","o","n","3","1","2",".","z","i","p">>

ExecFile == [type |-> "file", x |-> TRUE, r |-> TRUE, data |-> << >>]
PlainFile == [type |-> "file", x |-> FALSE, r |-> TRUE, data |-> << >>]
Directory == [type |-> "dir", x |-> TRUE, r |-> TRUE, data |-> << >>]
WasmFile == [type |-> "file", x |-> FALSE, r |-> TRUE, data |-> WasmMagic \o << 1 >>]

\* The function on the paths of S that kinds maps to a file.
FilesOf(S, kinds) == [p \in {q \in S : kinds[q] # "missing"} |->
                        CASE kinds[p] = "exec" -> ExecFile
                          [] kinds[p] = "plain" -> PlainFile
                          [] kinds[p] = "dir" -> Directory]

ModuleFiles == (P_root :> Directory) @@ (P_module :> WasmFile)
RuntimeFiles == (P_bin_wasmtime :> ExecFile)

DefaultScenario ==
    [environ |-> [PYTHON_WASM_RUNTIME |-> None,
                  PYTHON_WASM_PATH |-> Some(P_module),
                  PYTHON_WASM_RUNTIME_ARGS |-> << >>,
                  PYTHON_WASM_FORCE_ISOLATED |-> None,
                  PYTHON_WASM_DISABLE_ISOLATED |-> None],
     fs |-> [files |-> RuntimeFiles @@ ModuleFiles, path |-> << P_bin >>],
     platform |-> [posix |-> TRUE, resource |-> TRUE],
     request |-> [code |-> << 49 >>, stdin |-> None, max_output_bytes |-> 16,
                  cpu_time_limit_sec |-> Some(2), memory_limit_mb |-> Some(256)],
     program |-> [out_unit |-> << >>, status |-> 0, forks |-> FALSE, limit_fails |-> {}]]

\* Runtime lookup: every configured value against every placement of at
\* most MaxFiles files among the candidate locations.
MaxFiles == 2
RuntimeCandidates == {P_bin_wasmtime, P_bin_iwasm, P_cfg_abs, P_cfg_rel}
                     \cup {default_paths[i] : i \in DOMAIN default_paths}
ConfiguredRuntimes == {None, Some(<< >>), Some(S_iwasm), Some(S_wasmtime),
                       Some(P_cfg_abs), Some(S_cfg_rel), Some(P_usrlocal)}
RuntimePlacements ==
    {k \in [RuntimeCandidates -> {"missing", "exec", "plain", "dir"}] :
        Cardinality({p \in RuntimeCandidates : k[p] # "missing"}) <= MaxFiles}
RuntimeScenarios ==
    {[DefaultScenario EXCEPT !.environ.PYTHON_WASM_RUNTIME = c,
                             !.fs.files = FilesOf(RuntimeCandidates, k) @@ ModuleFiles] :
        c \in ConfiguredRuntimes, k \in RuntimePlacements}

\* Module validation: every configured module path against every state of
\* the file it names, with and without a runtime binary.
ModuleContents == {WasmMagic, WasmMagic \o << 1 >>, << >>, << 0, 97, 115 >>,
                   << 127, 69, 76, 70 >>, << 0, 97, 115, 110 >>, << 97, 0, 97, 115, 109 >>}
ModuleStates ==
    {<< >>} \cup {<< Directory >>}
    \cup {<< [type |-> "file", x |-> FALSE, r |-> rd, data |-> d] >> :
            rd \in BOOLEAN, d \in ModuleContents}
ModuleScenarios ==
    {[DefaultScenario EXCEPT !.environ.PYTHON_WASM_PATH = mp,
                             !.fs.files = (IF rt THEN RuntimeFiles ELSE << >>)
                                          @@ (IF st = << >> THEN << >>
                                              ELSE (P_module :> st[1]) @@ (P_module_rel :> st[1]))
                                          @@ (P_root :> Directory)] :
        mp \in {None, Some(<< >>), Some(P_module), Some(S_module_rel)},
        st \in ModuleStates, rt \in BOOLEAN}

\* Caller-supplied runtime arguments: every list of at most MaxArgs tokens.
MaxArgs == 3
T_map == <<"/","x",":",":","p","y","t","h","o","n">>                  \* "/x::python"
T_other == <<"/","x",":",":","p","y">>                                \* "/x::py"
T_dirEqMap == S_dirEq \o <<"/","y",":",":","p","y","t","h","o","n">>  \* "--dir=/y::python"
T_home == K_PYTHONHOME \o <<"=","/","q">>                             \* "PYTHONHOME=/q"
T_envEqHome == S_envEq \o K_PYTHONHOME \o <<"=","/","z">>             \* "--env=PYTHONHOME=/z"
T_homes == K_PYTHONHOME \o <<"S","=","/","q">>                        \* "PYTHONHOMES=/q"
ArgTokens == {S_dir, S_env, T_map, T_other, T_dirEqMap, T_home, T_envEqHome, T_homes}
ArgLists == UNION {[1..n -> ArgTokens] : n \in 0..MaxArgs}
ArgScenarios ==
    {[DefaultScenario EXCEPT !.environ.PYTHON_WASM_RUNTIME_ARGS = a] : a \in ArgLists}

\* The isolation toggles.
ToggleValues == {None, Some(S_one), Some(<<"0">>), Some(<< >>), Some(<<"1","1">>)}
ToggleScenarios ==
    {[DefaultScenario EXCEPT !.environ.PYTHON_WASM_FORCE_ISOLATED = f,
                             !.environ.PYTHON_WASM_DISABLE_ISOLATED = d] :
        f \in ToggleValues, d \in ToggleValues}

\* Layouts of the lib directory beside the module.
LibEntries == {PathJoin(P_lib, N_python3), PathJoin(P_lib, N_python312),
               PathJoin(P_lib, N_pythonx), PathJoin(P_lib, N_zip),
               PathJoin(PathJoin(P_lib, N_python312), S_sitepackages),
               PathJoin(PathJoin(P_lib, N_python312), S_libdynload)}
LibScenarios ==
    {[DefaultScenario EXCEPT !.fs.files = FilesOf(LibEntries \cup {P_lib}, k)
                                          @@ RuntimeFiles @@ ModuleFiles,
                             !.environ.PYTHON_WASM_RUNTIME_ARGS = a] :
        k \in {l \in [LibEntries \cup {P_lib} -> {"missing", "plain", "dir"}] :
                 \A p \in LibEntries : l[p] # "missing" => l[Parent(p)] = "dir"},
        a \in {<< >>, << S_env, K_PYTHON_WASM_STDLIB_PATHS \o S_eq \o <<"/","s">> >>}}

\* Platforms and failing setrlimit calls.
\* The resource module exists on POSIX systems only.
Platforms == {pf \in [posix : BOOLEAN, resource : BOOLEAN] : pf.resource => pf.posix}
ExitStatuses == {0, 1, 2, -24}
LimitScenarios ==
    {[DefaultScenario EXCEPT !.platform = pf, !.program.limit_fails = f,
                             !.program.status = st] :
        pf \in Platforms, f \in SUBSET Limits, st \in {0, 1}}
ProcessScenarios ==
    {[DefaultScenario EXCEPT !.platform = pf, !.program.forks = TRUE,
                             !.program.status = st] :
        pf \in Platforms, st \in ExitStatuses}

\* Output: what the child writes, over and over, against the cap.
OutUnits == {<< 97 >>, << 255 >>, << 195, 169 >>, << 226, 130, 172 >>,
             << 240, 159, 152, 128 >>, << 97, 128 >>}
Caps == {0, 1, 14, 15, 16, 32, 33, 34, 35}
OutputScenarios ==
    {[DefaultScenario EXCEPT !.program.out_unit = u, !.request.max_output_bytes = c] :
        u \in OutUnits, c \in Caps}

\* A few scenarios that between them exercise every step of the model.
CoverScenarios ==
    {[DefaultScenario EXCEPT !.environ.PYTHON_WASM_PATH = Some(P_root)],
     [DefaultScenario EXCEPT !.program.forks = TRUE],
     [DefaultScenario EXCEPT !.program.forks = TRUE, !.platform.resource = FALSE],
     [DefaultScenario EXCEPT !.program.out_unit = << 97 >>, !.request.stdin = Some(<< 120 >>)]}

InitFrom(S) ==
    /\ \E s \in S :
          /\ environ = s.environ
          /\ fs = s.fs
          /\ platform = s.platform
          /\ request = s.request
          /\ program = s.program
    /\ pc = "start"
    /\ error = None
    /\ runtime_path = None
    /\ wasm_module = None
    /\ runtime_args = << >>
    /\ stdlib_paths = << >>
    /\ python_args = << >>
    /\ env_updates = << >>
    /\ cmd = << >>
    /\ workdir = "none"
    /\ proc = NoProc
    /\ desc = [i \in DescIds |-> NoDesc]
    /\ attempted = {}
    /\ child_limits = [l \in Limits |-> None]
    /\ supervisor_limits = [l \in Limits |-> None]
    /\ out = << >>
    /\ err = << >>
    /\ timed_out = FALSE
    /\ result = None

Init == InitFrom(CoverScenarios \cup LimitScenarios \cup ProcessScenarios)
InitRuntime == InitFrom(CoverScenarios \cup RuntimeScenarios)
InitModule == InitFrom(CoverScenarios \cup ModuleScenarios)
InitAssemble == InitFrom(CoverScenarios \cup ArgScenarios \cup ToggleScenarios \cup LibScenarios)
InitOutput == InitFrom(CoverScenarios \cup OutputScenarios)

Spec == Init /\ [][Next]_vars
SpecRuntime == InitRuntime /\ [][Next]_vars
SpecModule == InitModule /\ [][Next]_vars
SpecAssemble == InitAssemble /\ [][Next]_vars
SpecOutput == InitOutput /\ [][Next]_vars
\* From the start of the child on, the supervisor's thread keeps running
\* (communicate's deadline passes, each statement after it is executed) and
\* the kernel delivers every signal; nothing obliges the untrusted processes
\* to do anything.
Supervising == Complete \/ Timeout \/ Killpg \/ Kill \/ Drain \/ Return
InitFair == InitFrom(CoverScenarios)
FairSpec == InitFair /\ [][Next]_vars /\ WF_vars(Supervising) /\ WF_vars(Kernel)

---------------------------------------------------------------------------
(* Vocabulary of the properties, stated on the inputs and the results.     *)
Min(S) == CHOOSE x \in S : \A y \in S : x <= y
Assembled == pc \notin {"start", "resolved", "error"}
Spawned == pc \notin {"start", "resolved", "error", "assembled"}
CallerArgs == environ.PYTHON_WASM_RUNTIME_ARGS

\* A regular file with the execute bit set.
IsExecutableFile(p) ==
    p \in DOMAIN fs.files /\ fs.files[p].type = "file" /\ fs.files[p].x
\* The places a runtime binary is looked for, in lookup order.
RuntimeCandidateList ==
    LET cfg == environ.PYTHON_WASM_RUNTIME
        OnSearchPath(name) == [i \in DOMAIN fs.path |-> PathJoin(fs.path[i], name)]
        configured ==
            IF cfg = None \/ cfg[1] = << >> THEN << >>
            ELSE IF \E i \in DOMAIN cfg[1] : cfg[1][i] = "/"
                 THEN << IF Head(cfg[1]) = "/" THEN cfg[1] ELSE Cwd \o S_slash \o cfg[1] >>
                 ELSE OnSearchPath(cfg[1])
    IN configured \o OnSearchPath(S_wasmtime)
       \o << P_homebrew, P_usrlocal, Home \o P_dotwasmtime, Home \o P_dotcargo >>
RuntimeHits == {i \in DOMAIN RuntimeCandidateList : IsExecutableFile(RuntimeCandidateList[i])}

\* The configured module, as the filesystem has it.
ModulePathSet == environ.PYTHON_WASM_PATH # None /\ environ.PYTHON_WASM_PATH[1] # << >>
ModuleAbs == IF Head(environ.PYTHON_WASM_PATH[1]) = "/" THEN environ.PYTHON_WASM_PATH[1]
             ELSE Cwd \o S_slash \o environ.PYTHON_WASM_PATH[1]
ConfigInvalid ==
    \/ RuntimeHits = {}
    \/ ~ModulePathSet
    \/ ModuleAbs \notin DOMAIN fs.files
    \/ fs.files[ModuleAbs].type = "dir"
    \/ ~fs.files[ModuleAbs].r
    \/ Len(fs.files[ModuleAbs].data) < 4
    \/ SubSeq(fs.files[ModuleAbs].data, 1, 4) # << 0, 97, 115, 109 >>

\* Argument positions that map a host directory to the guest prefix, and
\* positions that inject environment variable key.
MapsGuestPrefixAt(args, i) ==
    \/ /\ args[i] = S_dir
       /\ i < Len(args)
       /\ EndsWith(args[i + 1], <<":",":","p","y","t","h","o","n">>)
    \/ /\ StartsWith(args[i], S_dirEq)
       /\ EndsWith(SubSeq(args[i], 7, Len(args[i])), <<":",":","p","y","t","h","o","n">>)
CountMappings(args) == Cardinality({i \in DOMAIN args : MapsGuestPrefixAt(args, i)})
InjectsAt(args, i, key) ==
    \/ /\ args[i] = S_env
       /\ i < Len(args)
       /\ StartsWith(args[i + 1], key \o S_eq)
    \/ /\ StartsWith(args[i], S_envEq)
       /\ StartsWith(SubSeq(args[i], 7, Len(args[i])), key \o S_eq)
CountInjections(args, key) == Cardinality({i \in DOMAIN args : InjectsAt(args, i, key)})
\* The pair "--env", "key=value" occurs in args.
HasInjection(args, key, value) ==
    \E i \in DOMAIN args : i < Len(args) /\ args[i] = S_env
                           /\ args[i + 1] = key \o S_eq \o value
RequiredKeys == {env_updates[i][1] : i \in DOMAIN env_updates}
MarkerText == decode_replace(TruncationSuffix)

---------------------------------------------------------------------------
(* C1. For every raw stdout/stderr buffer and every cap, the text          *)
(* _truncate returns is at most max_output_bytes long when encoded, and    *)
(* when the raw buffer is longer than the cap the text ends with the whole *)
(* marker "\n...[truncated]". Stated on the returned ExecutionResult.      *)
C1_OutputWithinCap ==
    pc = "returned" =>
        /\ EncodedLen(result[1].stdout) <= request.max_output_bytes
        /\ EncodedLen(result[1].stderr) <= request.max_output_bytes
        /\ Len(out) > request.max_output_bytes => EndsWith(result[1].stdout, MarkerText)
        /\ Len(err) > request.max_output_bytes => EndsWith(result[1].stderr, MarkerText)

(* C2. When the deadline elapses first, the result has timed_out = true    *)
(* and no exit code, and at the return the child has been killed and       *)
(* reaped and every process of the child's process group has been sent     *)
(* SIGKILL, so that no member of the group is left running.                *)
C2_GroupTerminatedOnTimeout ==
    (pc = "returned" /\ timed_out) =>
        /\ result[1].timed_out
        /\ result[1].exit_code = None
        /\ proc.state = "reaped"
        /\ \A i \in DescIds :
              (desc[i].state = "running" /\ desc[i].pgid # "own") => desc[i].signaled

(* C3. With an invalid configuration (no runtime binary, module path       *)
(* unset, missing, a directory, unreadable, or not starting with "\0asm")  *)
(* execute_python raises a configuration error: no process is created,     *)
(* no working directory, no ExecutionResult.                               *)
C3_InvalidConfigNeverSpawns ==
    ConfigInvalid =>
        /\ proc.state = "none"
        /\ workdir = "none"
        /\ result = None
        /\ pc \in {"start", "error"}
        /\ pc = "error" => error # None

C3_Witness ==
    /\ pc = "error"
    /\ error = Some("module_bad_magic")
    /\ fs.files[ModuleAbs].data = << 0, 97, 115, 110 >>
    /\ proc.state = "none"

(* C4. When the child exits and the pipes drain before the deadline the    *)
(* call returns a result, not an error, with timed_out = false and         *)
(* exit_code the child's own exit status, zero or not; and in every        *)
(* result exit_code is absent exactly when timed_out is true.              *)
C4_ExitCodeIffNotTimedOut ==
    pc = "returned" =>
        /\ result # None
        /\ error = None
        /\ result[1].timed_out = timed_out
        /\ result[1].exit_code = None <=> result[1].timed_out
        /\ ~timed_out => /\ result[1].exit_code = Some(program.status)
                         /\ proc.status = Some(program.status)

C4_Witness ==
    /\ pc = "returned"
    /\ ~result[1].timed_out
    /\ result[1].exit_code = Some(1)

(* C5, as claimed. The assembler adds the mapping only when the caller     *)
(* gave none and an injection only when the caller gave none for that key, *)
(* the final list never holds two mappings to the guest prefix nor two     *)
(* injections of one required key, and assembling again adds nothing.      *)
C5_NeverDuplicates ==
    Assembled =>
        /\ CountMappings(runtime_args) <= 1
        /\ \A k \in RequiredKeys : CountInjections(runtime_args, k) <= 1
        /\ SubSeq(runtime_args, 1, Len(CallerArgs)) = CallerArgs
        /\ assemble_runtime_args(runtime_args, Parent(wasm_module[1]), env_updates)
              = runtime_args

(* C5, amended. The assembler keeps the caller's arguments as they are     *)
(* and adds one mapping exactly when the caller gave none, one injection   *)
(* per required key exactly when the caller gave none for that key: the    *)
(* final list holds max(1, n) of each, n being the caller's own count, so  *)
(* it has a duplicate only where the caller passed one. Assembling again   *)
(* adds nothing.                                                           *)
C5_AddsOnlyWhatIsMissing ==
    Assembled =>
        /\ SubSeq(runtime_args, 1, Len(CallerArgs)) = CallerArgs
        /\ CountMappings(runtime_args) = Max(1, CountMappings(CallerArgs))
        /\ \A k \in RequiredKeys :
              CountInjections(runtime_args, k) = Max(1, CountInjections(CallerArgs, k))
        /\ Len(runtime_args) = Len(CallerArgs)
              + (IF CountMappings(CallerArgs) = 0 THEN 2 ELSE 0)
              + 2 * Cardinality({k \in RequiredKeys : CountInjections(CallerArgs, k) = 0})
        /\ assemble_runtime_args(runtime_args, Parent(wasm_module[1]), env_updates)
              = runtime_args

C5_Witness ==
    /\ pc = "assembled"
    /\ CallerArgs = << T_dirEqMap, S_env, T_home >>
    /\ Len(runtime_args) = 3 + 2 * 4

(* C6, as claimed. When stdlib discovery returns nothing, the assembler    *)
(* adds no injection for a variable that carries the stdlib path list.     *)
C6_NoStdlibInjectionWhenEmpty ==
    (Assembled /\ stdlib_paths = << >>) =>
        /\ CountInjections(runtime_args, K_PYTHON_WASM_STDLIB_PATHS)
              = CountInjections(CallerArgs, K_PYTHON_WASM_STDLIB_PATHS)
        /\ CountInjections(runtime_args, K_PYTHONPATH)
              = CountInjections(CallerArgs, K_PYTHONPATH)

(* C6, amended. Only the PYTHONPATH injection depends on the list being    *)
(* non-empty: it is added exactly when the list is non-empty and the       *)
(* caller gave none. The PYTHON_WASM_STDLIB_PATHS injection is added       *)
(* whenever the caller gave none, with an empty value when discovery       *)
(* returned nothing.                                                       *)
C6_OnlyPythonPathIsConditional ==
    Assembled =>
        /\ stdlib_paths = << >> =>
              CountInjections(runtime_args, K_PYTHONPATH)
                 = CountInjections(CallerArgs, K_PYTHONPATH)
        /\ (stdlib_paths # << >> /\ CountInjections(CallerArgs, K_PYTHONPATH) = 0) =>
              HasInjection(runtime_args, K_PYTHONPATH, Join(S_colon, stdlib_paths))
        /\ CountInjections(CallerArgs, K_PYTHON_WASM_STDLIB_PATHS) = 0 =>
              HasInjection(runtime_args, K_PYTHON_WASM_STDLIB_PATHS,
                           Join(S_colon, stdlib_paths))

C6_Witness ==
    /\ pc = "assembled"
    /\ stdlib_paths = << >>
    /\ HasInjection(runtime_args, K_PYTHON_WASM_STDLIB_PATHS, << >>)
    /\ CountInjections(runtime_args, K_PYTHONPATH) = 0

(* C7. Once the child is spawned the call eventually returns a result,     *)
(* whatever the child and its descendants do.                              *)
C7_EventuallyReturns == (pc = "communicate") ~> (pc = "returned")

(* C8, as claimed. "-I" is among the guest program arguments only when     *)
(* PYTHON_WASM_FORCE_ISOLATED forces isolation on, and the arguments are   *)
(* ["-c", script] or ["-I", "-c", script].                                 *)
C8_IsolatedOnlyWhenForced ==
    Assembled =>
        /\ python_args \in {<< S_c, WASM_BOOTSTRAP_SCRIPT >>,
                            << S_I, S_c, WASM_BOOTSTRAP_SCRIPT >>}
        /\ Head(python_args) = S_I <=> environ.PYTHON_WASM_FORCE_ISOLATED = Some(S_one)

(* C8, amended. "-I" is added exactly when PYTHON_WASM_FORCE_ISOLATED is   *)
(* "1", or it is unset and PYTHON_WASM_DISABLE_ISOLATED is set to anything *)
(* but "1"; the arguments are ["-c", script] or ["-I", "-c", script].      *)
C8_IsolatedPolicy ==
    Assembled =>
        /\ python_args \in {<< S_c, WASM_BOOTSTRAP_SCRIPT >>,
                            << S_I, S_c, WASM_BOOTSTRAP_SCRIPT >>}
        /\ Head(python_args) = S_I <=>
              \/ environ.PYTHON_WASM_FORCE_ISOLATED = Some(S_one)
              \/ /\ environ.PYTHON_WASM_FORCE_ISOLATED = None
                 /\ environ.PYTHON_WASM_DISABLE_ISOLATED # None
                 /\ environ.PYTHON_WASM_DISABLE_ISOLATED # Some(S_one)

C8_Witness ==
    /\ pc = "assembled"
    /\ environ.PYTHON_WASM_FORCE_ISOLATED = None
    /\ environ.PYTHON_WASM_DISABLE_ISOLATED = Some(<<"0">>)
    /\ python_args = << S_I, S_c, WASM_BOOTSTRAP_SCRIPT >>

(* C9. Where the pre-exec hook runs, whichever setrlimit calls fail, all   *)
(* five limits are attempted, the ones that do not fail are in force in    *)
(* the child, the child leads a new process group, the spawn goes through  *)
(* and no limit is ever applied to the supervising process.                *)
C9_HookBestEffort ==
    /\ \A l \in Limits : supervisor_limits[l] = None
    /\ (Spawned /\ platform.posix) =>
          /\ attempted = Limits
          /\ \A l \in Limits \ program.limit_fails : child_limits[l] # None
          /\ proc.pgid = "own"
          /\ proc.state # "none"

(* C10. The runtime binary is the first place, in the order configured     *)
(* value, "wasmtime" on the search path, the well-known locations as       *)
(* listed, that holds an executable file; a configured path is taken only  *)
(* if it is one; the "runtime not found" error is raised exactly when no   *)
(* place holds one.                                                        *)
C10_FirstMatchWins ==
    pc # "start" =>
        IF RuntimeHits = {}
        THEN pc = "error" /\ error = Some("runtime_not_found")
        ELSE /\ error # Some("runtime_not_found")
             /\ error = None => runtime_path = Some(RuntimeCandidateList[Min(RuntimeHits)])

C10_Witness ==
    /\ pc = "resolved"
    /\ environ.PYTHON_WASM_RUNTIME = Some(P_cfg_abs)
    /\ P_cfg_abs \in DOMAIN fs.files
    /\ ~IsExecutableFile(P_cfg_abs)
    /\ runtime_path = Some(Home \o P_dotcargo)
====
